---------------------------- MODULE Spec2Model ----------------------------
(***************************************************************************)
(* The discrete-time simulation drivers run_sim and run_sim_2d of          *)
(* notebooks/interactions.ipynb, together with the transition functions    *)
(* the notebook hands to them.                                             *)
(*                                                                         *)
(* Numbers.  A numpy value is modelled as an exact rational <<n, d>> in    *)
(* lowest terms with d > 0.  Every parameter explored is a dyadic rational *)
(* of small magnitude, for which IEEE double arithmetic is exact, so       *)
(* rational arithmetic computes what the float arithmetic computes.        *)
(* Storing into an 'int' array truncates toward zero (numpy's cast on      *)
(* assignment); storing into a 'float' array keeps the value.              *)
(*                                                                         *)
(* Arrays.  A trajectory buffer is a sequence of rows, row t of the code   *)
(* being element t + 1 of the sequence.  np.empty leaves the buffer        *)
(* uninitialised: its cells hold a value chosen nondeterministically.      *)
(*                                                                         *)
(* References.  N[t-1, :] is a view: a transition that updates its         *)
(* argument in place (SI_gen) updates the row of the buffer it was handed. *)
(***************************************************************************)
EXTENDS Integers, Sequences, FiniteSets, TLC

\* Largest generation count ngens explored.
MaxGens == 3
\* Largest integer population count in an initial vector.
MaxCount == 1
\* Cap on one Poisson draw (the distribution itself is unbounded).
MaxDraw == 1

---------------------------------------------------------------------------
\* Exact arithmetic on rationals <<n, d>>.

RECURSIVE GCD(_, _)
GCD(a, b) == IF b = 0 THEN a ELSE GCD(b, a % b)

Abs(x) == IF x < 0 THEN -x ELSE x

Norm(n, d) ==
    LET g == GCD(Abs(n), Abs(d))
        s == IF d < 0 THEN -1 ELSE 1
    IN  <<(s * n) \div g, (s * d) \div g>>

Q(n) == <<n, 1>>
Zero == Q(0)
One == Q(1)
Half == <<1, 2>>

RAdd(a, b) ==
    LET l == (a[2] \div GCD(a[2], b[2])) * b[2]
    IN  Norm(a[1] * (l \div a[2]) + b[1] * (l \div b[2]), l)

RNeg(a) == <<-a[1], a[2]>>

RSub(a, b) == RAdd(a, RNeg(b))

RMul(a, b) ==
    LET g1 == GCD(Abs(a[1]), b[2])
        g2 == GCD(Abs(b[1]), a[2])
    IN  Norm((a[1] \div g1) * (b[1] \div g2), (a[2] \div g2) * (b[2] \div g1))

\* a / b for b # 0.
RDiv(a, b) == RMul(a, Norm(b[2], b[1]))

IsInt(a) == a[2] = 1

\* The C cast float -> int: the fractional part is dropped (toward zero).
Trunc(a) ==
    IF a[1] >= 0 THEN Q(a[1] \div a[2]) ELSE Q(-((-a[1]) \div a[2]))

---------------------------------------------------------------------------
\* Vectors (one-dimensional arrays) and elementwise arithmetic.

VAdd(v, w) == [k \in 1..Len(v) |-> RAdd(v[k], w[k])]
VSub(v, w) == [k \in 1..Len(v) |-> RSub(v[k], w[k])]
VMul(v, w) == [k \in 1..Len(v) |-> RMul(v[k], w[k])]
\* scalar (op) vector
SMul(c, v) == [k \in 1..Len(v) |-> RMul(c, v[k])]
SAdd(c, v) == [k \in 1..Len(v) |-> RAdd(c, v[k])]
SSub(c, v) == [k \in 1..Len(v) |-> RSub(c, v[k])]
VDivS(v, c) == [k \in 1..Len(v) |-> RDiv(v[k], c)]
VSubS(v, c) == [k \in 1..Len(v) |-> RSub(v[k], c)]
VNeg(v) == [k \in 1..Len(v) |-> RNeg(v[k])]

\* All sequences s with s[k] \in sets[k].
RECURSIVE SeqProduct(_)
SeqProduct(sets) ==
    IF sets = <<>> THEN {<<>>}
    ELSE LET n == Len(sets)
         IN  {Append(p, x) : p \in SeqProduct(SubSeq(sets, 1, n - 1)), x \in sets[n]}


---------------------------------------------------------------------------
\* Comparison with zero and one, for distribution parameters.

RLt(a, b) == a[1] * b[2] < b[1] * a[2]

\* np.fmax(0.0, x)
RFmax0(a) == IF RLt(a, Zero) THEN Zero ELSE a
VFmax0(v) == [k \in 1..Len(v) |-> RFmax0(v[k])]

\* A draw that can be positive at rate 0.
PoissonAtZero(rate) == IF RLt(rate, Zero) THEN {} ELSE 0..MaxDraw

\* The outcomes of np.random.poisson(rate): a negative rate raises
\* ValueError (no outcome), rate 0 always draws 0, a positive rate can draw
\* any count; draws are capped at MaxDraw.
Poisson(rate) ==
    IF RLt(rate, Zero) THEN {}
    ELSE IF rate = Zero THEN {0}
    ELSE 0..MaxDraw

\* A draw that can exceed the number of trials.
BinomialOver(n, p) == IF n < 0 THEN {} ELSE 0..(n + 1)

\* The outcomes of np.random.binomial(n, p) for an integer n: n < 0 or p
\* outside [0, 1] raises ValueError (no outcome).
Binomial(n, p) ==
    IF n < 0 \/ RLt(p, Zero) \/ RLt(One, p) THEN {}
    ELSE IF p = Zero THEN {0}
    ELSE IF p = One THEN {n}
    ELSE 0..n

\* The integer held by an 'int' array cell.
Count(a) == a[1]

---------------------------------------------------------------------------
\* Transition functions taking one state vector.  Each yields the set of
\* vectors a call can return; the empty set means the call raises.

\* def logistic_gen(N, lam, mu, K):
\*     return (np.random.poisson(lam * N * np.fmax(0.0, 1 - N / K), len(N))
\*             + np.random.binomial(N, 1 - mu, len(N)))
logistic_gen(N, kw) ==
    LET rate == VMul(SMul(kw.lam, N), VFmax0(SSub(One, VDivS(N, kw.K))))
        born(k) == Poisson(rate[k])
        alive(k) == Binomial(Count(N[k]), RSub(One, kw.mu))
    IN  SeqProduct([k \in 1..Len(N) |->
                       {Q(b + s) : b \in born(k), s \in alive(k)}])

\* def logistic_step(N, lam, mu, K):
\*     return N + (lam - mu) * N * (1 - lam * N / (K * (lam - mu)))
logistic_step(N, kw) ==
    LET r == RSub(kw.lam, kw.mu)
        crowd == VDivS(SMul(kw.lam, N), RMul(kw.K, r))
    IN  {VAdd(N, VMul(SMul(r, N), SSub(One, crowd)))}

\* The spec's scenario transition f(N) = N + 1.
inc_step(N) == {SAdd(One, N)}

\* A caller-supplied transition that ignores its state and returns a vector
\* of kw.size ones: the shape-contract violation of spec section 4.1.
const_gen(N, kw) == {[k \in 1..kw.size |-> One]}

---------------------------------------------------------------------------
\* Transition functions taking two state vectors.  Each yields the set of
\* records [N, M, inplace] a call can produce: N and M are the returned
\* vectors, and inplace says that the call wrote them into its arguments.

Pure(n, m) == [N |-> n, M |-> m, inplace |-> FALSE]

\* np.exp(x).  Only exp(0) = 1 is a rational; the calls explored never ask
\* for another value (see ScaledExp and Growth).
Exp(x) == CASE x = Zero -> One

\* l * np.exp(v) elementwise.  0 * exp(x) is 0 for every finite x.
ScaledExp(l, v) ==
    [k \in 1..Len(v) |-> IF l = Zero THEN Zero ELSE RMul(l, Exp(v[k]))]

\* p * N * (lam * np.exp(x) - 1) elementwise, pN being p * N.  Where pN is 0
\* the product is 0 for every finite value of the other factor, and
\* np.exp(x) is finite for x <= 0.
Growth(pN, lam, x) ==
    [k \in 1..Len(pN) |->
        IF pN[k] = Zero THEN Zero
        ELSE RMul(pN[k], RSub(ScaledExp(lam, <<x[k]>>)[1], One))]

\* def lv_eqn(N, M, lam, p, K, a):
\*     next_N = N + p[0] * N * (lam[0] * np.exp(-(N + a[0] * M)/K[0]) - 1)
\*     next_M = M + p[1] * M * (lam[1] * np.exp(-(M + a[1] * N)/K[1]) - 1)
lv_eqn(N, M, kw) ==
    LET xN == VDivS(VNeg(VAdd(N, SMul(kw.a[1], M))), kw.K[1])
        xM == VDivS(VNeg(VAdd(M, SMul(kw.a[2], N))), kw.K[2])
        next_N == VAdd(N, Growth(SMul(kw.p[1], N), kw.lam[1], xN))
        next_M == VAdd(M, Growth(SMul(kw.p[2], M), kw.lam[2], xM))
    IN  {Pure(next_N, next_M)}

\* One replicate of lv_gen for one species: n individuals, of which
\* binomial(n, p) die, and poisson(dies * lam * exp(..)) are born.  exp(..)
\* is positive, so the sign of the rate is that of dies * lam.
lv_gen_one(n, p, lam) ==
    UNION {{Q(n - dies + repro) : repro \in Poisson(RMul(Q(dies), lam))}
           : dies \in Binomial(n, p)}

\* def lv_gen(N, M, lam, p, K, a):
\*     N_dies = np.random.binomial(N, p[0]) ...
\*     next_N = N - N_dies + N_repro
\*     next_M = M - M_dies + M_repro
lv_gen(N, M, kw) ==
    LET nextN == SeqProduct([k \in 1..Len(N) |-> lv_gen_one(Count(N[k]), kw.p[1], kw.lam[1])])
        nextM == SeqProduct([k \in 1..Len(M) |-> lv_gen_one(Count(M[k]), kw.p[2], kw.lam[2])])
    IN  {Pure(n, m) : n \in nextN, m \in nextM}

\* def SI_eqn(N, M, dt, lam, c, a, rho, mu, delta):
\*     next_N = N + dt * (lam - mu * N - a * c * N * M + rho * M)
\*     next_M = M + dt * (a * c * N * M - delta * M - rho * M)
SI_eqn(N, M, kw) ==
    LET acNM == VMul(SMul(RMul(kw.a, kw.c), N), M)
        dN == VAdd(VSub(SSub(kw.lam, SMul(kw.mu, N)), acNM), SMul(kw.rho, M))
        dM == VSub(VSub(acNM, SMul(kw.delta, M)), SMul(kw.rho, M))
    IN  {Pure(VAdd(N, SMul(kw.dt, dN)), VAdd(M, SMul(kw.dt, dM)))}

\* One replicate of SI_gen after the birth draw: s susceptibles (births
\* included) and i infected.  Deaths, then infections (each of the s
\* susceptibles draws binomial(i, a*c) encounters and is infected when it
\* draws more than none), then recoveries.
SI_gen_one(s, i, kw) ==
    LET mu == RMul(kw.mu, kw.dt)
        delta == RMul(kw.delta, kw.dt)
        ac == RMul(kw.a, RMul(kw.c, kw.dt))
        rho == RMul(kw.rho, kw.dt)
        infected(s1, i1) ==
            IF s1 = 0 \/ Binomial(i1, ac) \subseteq {0} THEN {0} ELSE 0..s1
    IN  UNION {UNION {UNION {
            {<<Q((s - ds - inf) + rec), Q((i - di + inf) - rec)>>
                : rec \in Binomial(i - di + inf, rho)}
            : inf \in infected(s - ds, i - di)}
            : di \in Binomial(i, delta)}
            : ds \in Binomial(s, mu)}

\* def SI_gen(S, I, dt, lam, c, a, rho, mu, delta):
\*     S += np.random.poisson(lam)      (one draw, added to every replicate)
\*     S -= ..., I -= ..., S[k] -= ..., I[k] += ..., I -= ..., S += ...
\*     return S, I
\* Every update is in place: what is returned is the two arguments.
SI_gen(S, I, kw) ==
    UNION {
        LET reps == SeqProduct([k \in 1..Len(S) |->
                                   SI_gen_one(Count(S[k]) + birth, Count(I[k]), kw)])
        IN  {[N |-> [k \in 1..Len(S) |-> r[k][1]],
              M |-> [k \in 1..Len(S) |-> r[k][2]],
              inplace |-> TRUE] : r \in reps}
        : birth \in Poisson(RMul(kw.lam, kw.dt))}

\* The spec's scenario transition f(N, M) = (N - 1, M + 1).
shift_step(N, M) == {Pure(SAdd(Q(-1), N), SAdd(One, M))}

\* A caller-supplied joint transition returning kw.sizeN and kw.sizeM ones.
const_gen_2d(N, M, kw) ==
    {Pure([k \in 1..kw.sizeN |-> One], [k \in 1..kw.sizeM |-> One])}

---------------------------------------------------------------------------
\* The calls explored.

\* Replicate counts len(N0), len(M0).
Lens == {1, 2}

\* Values of an initial vector: the integer counts, and one non-integer.
InitVals == {Q(c) : c \in 0..MaxCount} \cup {Half}

Vectors == UNION {[1..L -> InitVals] : L \in Lens}

GenFns1 == {"logistic_gen", "logistic_step", "inc_step", "const_gen"}
GenFns2 == {"lv_eqn", "lv_gen", "SI_eqn", "SI_gen", "shift_step", "const_gen_2d"}

\* The transitions that draw random numbers.
Stochastic == {"logistic_gen", "lv_gen", "SI_gen"}

\* The transitions that return a value computed from their arguments alone
\* and leave the arguments as they were.
Deterministic == (GenFns1 \cup GenFns2) \ Stochastic

\* Sizes a const_gen call is asked to return.
Sizes == 0..3

\* Sizes a const_gen_2d call is asked to return: equal ones, and 1 with 3.
SizePairs == {<<n, n>> : n \in 1..3} \cup {<<1, 3>>, <<3, 1>>}

\* SI_args of the notebook, with dyadic values.
SI_args == [dt |-> Half, lam |-> One, c |-> One, a |-> Half,
            rho |-> Half, mu |-> Half, delta |-> Half]

\* **kwargs of a call.  Probabilities lie strictly between 0 and 1 and
\* rates are positive, as in the notebook.  lv_eqn is explored where its
\* value is rational: with zero fecundity of both species, and with a
\* fertile first species that is absent (see Init).
Kwargs(fn) ==
    CASE fn = "logistic_gen" -> {[lam |-> One, mu |-> Half, K |-> Q(2)]}
      [] fn = "logistic_step" -> {[lam |-> Zero, mu |-> Half, K |-> Q(2)],
                                  [lam |-> One, mu |-> Half, K |-> Q(2)]}
      [] fn = "const_gen" -> {[size |-> n] : n \in Sizes}
      [] fn = "lv_eqn" -> {[lam |-> <<l, Zero>>, p |-> <<Half, Half>>,
                            K |-> <<Q(2), Q(2)>>, a |-> <<Half, Half>>]
                              : l \in {Zero, One}}
      [] fn = "lv_gen" -> {[lam |-> <<One, One>>, p |-> <<Half, Half>>,
                            K |-> <<Q(2), Q(2)>>, a |-> <<Half, Half>>]}
      [] fn \in {"SI_eqn", "SI_gen"} -> {SI_args}
      [] fn = "const_gen_2d" -> {[sizeN |-> n, sizeM |-> m] : <<n, m>> \in SizePairs}
      [] OTHER -> {<<>>}

\* The dtype hints a transition is run with: the random draws need integer
\* counts, so the stochastic transitions run on 'int' storage.
Dtypes(fn) == IF fn \in Stochastic THEN {"int"} ELSE {"int", "float"}

\* gen_fn(N[t-1, :], **kwargs)
Call1(fn, kw, row) ==
    CASE fn = "logistic_gen" -> logistic_gen(row, kw)
      [] fn = "logistic_step" -> logistic_step(row, kw)
      [] fn = "inc_step" -> inc_step(row)
      [] fn = "const_gen" -> const_gen(row, kw)

\* gen_fn(N[t-1, :], M[t-1, :], **kwargs)
Call2(fn, kw, rowN, rowM) ==
    CASE fn = "lv_eqn" -> lv_eqn(rowN, rowM, kw)
      [] fn = "lv_gen" -> lv_gen(rowN, rowM, kw)
      [] fn = "SI_eqn" -> SI_eqn(rowN, rowM, kw)
      [] fn = "SI_gen" -> SI_gen(rowN, rowM, kw)
      [] fn = "shift_step" -> shift_step(rowN, rowM)
      [] fn = "const_gen_2d" -> const_gen_2d(rowN, rowM, kw)

---------------------------------------------------------------------------
\* Array storage.

\* What np.empty may leave in a cell.
Garbage == {Q(-7), Q(9)}

\* Conversion of a value to the array's dtype on assignment.
Cast(dt, x) == IF dt = "int" THEN Trunc(x) ELSE x

\* A storage check that lets every non-empty vector through.
CanStoreLoose(v, L) == Len(v) >= 1

\* Whether a vector can be assigned to a row of L cells: numpy broadcasts a
\* vector of length 1, and raises ValueError for any other length but L.
CanStore(v, L) == Len(v) = L \/ Len(v) = 1

\* An assignment that replaces the row by the vector as it is.
BroadcastNone(v, L) == v

\* The L values a row receives from v.
Broadcast(v, L) == [k \in 1..L |-> IF Len(v) = 1 THEN v[1] ELSE v[k]]

\* row[:] = v
Store(dt, v, L) ==
    LET b == Broadcast(v, L)
    IN  [k \in 1..Len(b) |-> Cast(dt, b[k])]

\* np.empty((n, L), dtype) followed by buf[0, :] = v0.
Alloc(dt, n, L, v0, g) ==
    [r \in 1..n |-> IF r = 1 THEN Store(dt, v0, L) ELSE [k \in 1..L |-> g]]

\* A loop that starts one generation late.
FirstGenSkip == 1 + 1

\* A loop that stops one generation early.
LastGenShort(n) == n - 2

\* range(1, ngens)
FirstGen == 1
LastGen(n) == n - 1

\* A call that is always handed row 0.
ArgRowStale(g) == 0

\* An assignment of M one row behind that of N.
DestRowMLag(g) == g - 1

\* The row handed to gen_fn at generation t, and the rows assigned.
ArgRow(g) == g - 1
DestRowN(g) == g
DestRowM(g) == g

\* A driver without the assertion.
LengthsUnchecked(v, w) == TRUE

\* assert(len(N0) == len(M0))
LengthsAgree(v, w) == Len(v) = Len(w)

\* A driver whose row 0 is the caller's vector itself.
Row0Aliased == TRUE

\* N[0, :] = N0 copies the values: row 0 is storage of the driver's own and
\* shares nothing with the caller's vector.
Row0SharesCaller == FALSE

---------------------------------------------------------------------------
VARIABLES
    driver,   \* "run_sim" or "run_sim_2d"
    gen_fn,   \* the transition function passed
    ngens,    \* the generation count passed
    dtype,    \* the dtype hint passed
    kwargs,   \* the keyword parameters passed
    N0, M0,   \* the caller's initial vectors (M0 = <<>> for run_sim)
    N, M,     \* the driver's buffers (<<>> while not allocated)
    wN, wM,   \* the rows of N and of M assigned so far
    t,        \* the loop variable
    pc,       \* "call", "loop", "done" (returned) or "raised"
    calls,    \* the calls of gen_fn made by this invocation, in order
    run,      \* 1 for the first invocation, 2 for its repetition
    first     \* what the first invocation returned (<<>> before)

vars == <<driver, gen_fn, ngens, dtype, kwargs, N0, M0, N, M, wN, wM, t, pc,
          calls, run, first>>

inputs == <<driver, gen_fn, ngens, dtype, kwargs>>

Init ==
    /\ driver \in {"run_sim", "run_sim_2d"}
    /\ gen_fn \in IF driver = "run_sim" THEN GenFns1 ELSE GenFns2
    /\ ngens \in 0..MaxGens
    /\ dtype \in Dtypes(gen_fn)
    /\ kwargs \in Kwargs(gen_fn)
    /\ N0 \in Vectors
    /\ M0 \in IF driver = "run_sim" THEN {<<>>} ELSE Vectors
    \* several replicates of a stochastic transition are followed for one step
    /\ gen_fn \in Stochastic => (Len(N0) = 1 \/ ngens <= 2)
    \* a fertile species of lv_eqn starts extinct in every replicate
    /\ (gen_fn = "lv_eqn" /\ kwargs.lam[1] # Zero)
          => \A k \in 1..Len(N0) : N0[k] = Zero
    /\ N = <<>> /\ M = <<>>
    /\ wN = {} /\ wM = {}
    /\ t = 0
    /\ pc = "call"
    /\ calls = <<>>
    /\ run = 1
    /\ first = <<>>

\* run_sim, lines 35-36: allocate, copy the initial vector into row 0.
\* With ngens = 0 there is no row 0 and the assignment raises IndexError.
RunSimEnter ==
    /\ pc = "call" /\ driver = "run_sim"
    /\ \E g \in Garbage :
          N' = Alloc(dtype, ngens, Len(N0), N0, g)
    /\ IF ngens = 0
          THEN pc' = "raised" /\ wN' = {} /\ t' = t
          ELSE pc' = "loop" /\ wN' = {0} /\ t' = FirstGen
    /\ UNCHANGED <<inputs, N0, M0, M, wM, calls, run, first>>

\* run_sim, lines 37-38: one iteration of the loop.
RunSimStep ==
    /\ pc = "loop" /\ driver = "run_sim"
    /\ t <= LastGen(ngens)
    /\ LET L == Len(N0)
           arg == N[ArgRow(t) + 1]
           outs == Call1(gen_fn, kwargs, arg)
           entry(ret, ok) == [t |-> t, row |-> ArgRow(t), argN |-> arg, argM |-> <<>>,
                              retN |-> ret, retM |-> <<>>, returned |-> ok]
       IN  IF outs = {}
              THEN /\ pc' = "raised"
                   /\ calls' = Append(calls, entry(<<>>, FALSE))
                   /\ UNCHANGED <<N, wN, t>>
              ELSE \E ret \in outs :
                   /\ calls' = Append(calls, entry(ret, TRUE))
                   /\ IF CanStore(ret, L)
                         THEN /\ N' = [N EXCEPT ![DestRowN(t) + 1] = Store(dtype, ret, L)]
                              /\ wN' = wN \cup {DestRowN(t)}
                              /\ t' = t + 1
                              /\ pc' = pc
                         ELSE /\ pc' = "raised"
                              /\ UNCHANGED <<N, wN, t>>
    /\ UNCHANGED <<inputs, N0, M0, M, wM, run, first>>

\* run_sim, line 39: return N.
RunSimReturn ==
    /\ pc = "loop" /\ driver = "run_sim"
    /\ t > LastGen(ngens)
    /\ pc' = "done"
    /\ UNCHANGED <<inputs, N0, M0, N, M, wN, wM, t, calls, run, first>>

\* run_sim_2d, lines 201-205: the assertion, then both allocations.
RunSim2dEnter ==
    /\ pc = "call" /\ driver = "run_sim_2d"
    /\ IF ~LengthsAgree(N0, M0)
          THEN pc' = "raised" /\ UNCHANGED <<N, M, wN, wM, t>>
          ELSE /\ \E g \in Garbage :
                    /\ N' = Alloc(dtype, ngens, Len(N0), N0, g)
                    /\ M' = IF ngens = 0 THEN <<>>
                            ELSE Alloc(dtype, ngens, Len(M0), M0, g)
               /\ IF ngens = 0
                     THEN pc' = "raised" /\ wN' = {} /\ wM' = {} /\ t' = t
                     ELSE pc' = "loop" /\ wN' = {0} /\ wM' = {0} /\ t' = FirstGen
    /\ UNCHANGED <<inputs, N0, M0, calls, run, first>>

\* run_sim_2d, lines 206-207: one iteration of the loop.  The call may
\* update rows t-1 in place; then N[t, :] is assigned, then M[t, :].
RunSim2dStep ==
    /\ pc = "loop" /\ driver = "run_sim_2d"
    /\ t <= LastGen(ngens)
    /\ LET LN == Len(N0)
           LM == Len(M0)
           src == ArgRow(t) + 1
           outs == Call2(gen_fn, kwargs, N[src], M[src])
           entry(rn, rm, ok) == [t |-> t, row |-> ArgRow(t), argN |-> N[src], argM |-> M[src],
                                 retN |-> rn, retM |-> rm, returned |-> ok]
       IN  IF outs = {}
              THEN /\ pc' = "raised"
                   /\ calls' = Append(calls, entry(<<>>, <<>>, FALSE))
                   /\ UNCHANGED <<N, M, N0, M0, wN, wM, t>>
              ELSE \E o \in outs :
                   LET N1 == IF o.inplace THEN [N EXCEPT ![src] = Store(dtype, o.N, LN)] ELSE N
                       M1 == IF o.inplace THEN [M EXCEPT ![src] = Store(dtype, o.M, LM)] ELSE M
                       shared == o.inplace /\ Row0SharesCaller /\ ArgRow(t) = 0
                   IN  /\ calls' = Append(calls, entry(o.N, o.M, TRUE))
                       /\ N0' = IF shared THEN N1[src] ELSE N0
                       /\ M0' = IF shared THEN M1[src] ELSE M0
                       /\ IF ~CanStore(o.N, LN)
                             THEN /\ pc' = "raised"
                                  /\ N' = N1 /\ M' = M1
                                  /\ UNCHANGED <<wN, wM, t>>
                             ELSE /\ N' = [N1 EXCEPT ![DestRowN(t) + 1] = Store(dtype, o.N, LN)]
                                  /\ wN' = wN \cup {DestRowN(t)}
                                  /\ IF ~CanStore(o.M, LM)
                                        THEN /\ pc' = "raised"
                                             /\ M' = M1
                                             /\ UNCHANGED <<wM, t>>
                                        ELSE /\ M' = [M1 EXCEPT ![DestRowM(t) + 1] = Store(dtype, o.M, LM)]
                                             /\ wM' = wM \cup {DestRowM(t)}
                                             /\ t' = t + 1
                                             /\ pc' = pc
    /\ UNCHANGED <<inputs, run, first>>

\* run_sim_2d, line 208: return N, M.
RunSim2dReturn ==
    /\ pc = "loop" /\ driver = "run_sim_2d"
    /\ t > LastGen(ngens)
    /\ pc' = "done"
    /\ UNCHANGED <<inputs, N0, M0, N, M, wN, wM, t, calls, run, first>>

\* The caller keeps what a run with a deterministic transition returned and
\* invokes the driver once more with the same arguments.
CallAgain ==
    /\ pc = "done" /\ run = 1
    /\ gen_fn \in Deterministic
    /\ first' = <<N, M>>
    /\ run' = 2
    /\ pc' = "call"
    /\ N' = <<>> /\ M' = <<>>
    /\ wN' = {} /\ wM' = {}
    /\ t' = 0
    /\ calls' = <<>>
    /\ UNCHANGED <<inputs, N0, M0>>

Next ==
    \/ RunSimEnter
    \/ RunSimStep
    \/ RunSimReturn
    \/ RunSim2dEnter
    \/ RunSim2dStep
    \/ RunSim2dReturn
    \/ CallAgain

Spec == Init /\ [][Next]_vars

---------------------------------------------------------------------------
\* Vocabulary of the properties.

Is2d == driver = "run_sim_2d"

\* The replicate count L.
L0 == Len(N0)

\* Row g (counted from 0, as in the code) of a buffer.
Row(buf, g) == buf[g + 1]

\* The dtype holds every value of the vector as it is.
Representable(v) == dtype = "float" \/ \A k \in 1..Len(v) : IsInt(v[k])

\* The transition returns vectors of the replicate count.
ShapeKept ==
    CASE gen_fn = "const_gen" -> kwargs.size = L0
      [] gen_fn = "const_gen_2d" -> kwargs.sizeN = L0 /\ kwargs.sizeM = L0
      [] OTHER -> TRUE

\* Call i returned a vector that is not of the replicate count.
WrongLength(i) ==
    /\ calls[i].returned
    /\ \/ Len(calls[i].retN) # L0
       \/ Is2d /\ Len(calls[i].retM) # L0

\* Call i returned a vector whose length is neither the replicate count nor 1.
Unassignable(i) ==
    /\ calls[i].returned
    /\ \/ Len(calls[i].retN) \notin {L0, 1}
       \/ Is2d /\ Len(calls[i].retM) \notin {L0, 1}

\* Every value of the vector is a non-negative integer.
IsCounts(v) == \A k \in 1..Len(v) : IsInt(v[k]) /\ v[k][1] >= 0

\* Every value of the vector is non-negative.
NonNegative(v) == \A k \in 1..Len(v) : ~RLt(v[k], Zero)

---------------------------------------------------------------------------
\* C1.  Row 0 of every returned trajectory equals the supplied initial
\* vector, for every transition function of the notebook.  Stated for the
\* initial vectors the dtype holds exactly.
C1_RowZeroIsInitial ==
    (pc = "done" /\ Representable(N0) /\ (Is2d => Representable(M0)))
        => /\ Row(N, 0) = N0
           /\ Is2d => Row(M, 0) = M0

\* C2 as claimed.  With a deterministic transition that returns vectors of
\* the replicate count, every row t >= 1 of the returned trajectory equals
\* the transition applied to row t-1, whatever the dtype.
C2_RowIsTransitionExact ==
    (pc = "done" /\ gen_fn \in Deterministic /\ ShapeKept)
        => \A g \in 1..(ngens - 1) :
              IF Is2d
                 THEN Call2(gen_fn, kwargs, Row(N, g - 1), Row(M, g - 1))
                          = {Pure(Row(N, g), Row(M, g))}
                 ELSE Call1(gen_fn, kwargs, Row(N, g - 1)) = {Row(N, g)}

\* C2 as amended.  With a deterministic transition that returns vectors of
\* the replicate count, every row t >= 1 of the returned trajectory equals
\* the transition applied to row t-1 and converted to the dtype (truncated
\* toward zero for 'int'); with f(N) = N + 1 on representable counts the
\* trajectory is N0, N0 + 1, N0 + 2, ...
C2_RowIsStoredTransition ==
    (pc = "done" /\ gen_fn \in Deterministic /\ ShapeKept)
        => /\ \A g \in 1..(ngens - 1) :
                 IF Is2d
                    THEN \E o \in Call2(gen_fn, kwargs, Row(N, g - 1), Row(M, g - 1)) :
                            /\ Row(N, g) = Store(dtype, o.N, L0)
                            /\ Row(M, g) = Store(dtype, o.M, L0)
                    ELSE \E o \in Call1(gen_fn, kwargs, Row(N, g - 1)) :
                            Row(N, g) = Store(dtype, o, L0)
           /\ (gen_fn = "inc_step" /\ Representable(N0))
                 => \A g \in 0..(ngens - 1) : Row(N, g) = SAdd(Q(g), N0)

\* C2, witness: an 'int' run of three generations returned a trajectory in
\* which a row is the truncation of, and differs from, the transition's value.
C2_Witness ==
    /\ pc = "done" /\ gen_fn = "logistic_step" /\ dtype = "int" /\ ngens = 3
    /\ \E g \in 1..2 : Call1(gen_fn, kwargs, Row(N, g - 1)) # {Row(N, g)}

\* C3 as claimed.  Once the transition has returned a vector whose length
\* is not the replicate count (length 1 included), the invocation has failed.
C3_WrongLengthRaises ==
    \A i \in 1..Len(calls) : WrongLength(i) => pc = "raised"

\* C3 as amended.  Once the transition has returned a vector whose length
\* is neither the replicate count nor 1, the invocation has failed, at that
\* very call, and returns nothing; a vector of length 1 is not an error: its
\* value is assigned to every replicate of the row.
C3_UnassignableLengthRaises ==
    /\ \A i \in 1..Len(calls) :
          Unassignable(i) <=> (calls[i].returned /\ pc = "raised" /\ i = Len(calls))
    /\ \A i \in 1..Len(calls) :
          (calls[i].returned /\ ~Unassignable(i) /\ L0 > 1 /\ Len(calls[i].retN) = 1)
              => \A k \in 1..L0 :
                    Row(N, calls[i].t)[k] = Cast(dtype, calls[i].retN[1])

\* C3, witness: a call returned three values for two replicates and the
\* invocation failed.
C3_Witness ==
    /\ pc = "raised" /\ calls # <<>> /\ L0 = 2
    /\ calls[Len(calls)].returned
    /\ Len(calls[Len(calls)].retN) = 3

\* C4.  run_sim_2d called with initial vectors of unequal length fails
\* before anything else happens: no call of the transition, no buffer, no
\* row assigned, nothing returned.
C4_UnequalLengthsFailFirst ==
    (Is2d /\ Len(N0) # Len(M0))
        => /\ pc \in {"call", "raised"}
           /\ calls = <<>>
           /\ N = <<>> /\ M = <<>>
           /\ wN = {} /\ wM = {}

\* C4, witness: such a call has failed.
C4_Witness == Is2d /\ Len(N0) # Len(M0) /\ pc = "raised"

\* C5.  While the driver computes a generation, the rows already assigned
\* keep their values: no transition function of the notebook writes to them.
C5_WrittenRowsKept ==
    [][pc = "loop" =>
          /\ \A g \in wN : Row(N', g) = Row(N, g)
          /\ \A g \in wM : Row(M', g) = Row(M, g)]_vars

\* C6.  The transition is called once for each t = 1, 2, ..., in this
\* order, each time on row t-1; a driver that returns has made ngens - 1
\* calls; with ngens = 1 it has made none and returns the initial vector only.
C6_CallsInOrder ==
    /\ \A i \in 1..Len(calls) :
          /\ calls[i].t = i
          /\ calls[i].row = i - 1
          /\ gen_fn # "SI_gen"
                => /\ calls[i].argN = Row(N, i - 1)
                   /\ Is2d => calls[i].argM = Row(M, i - 1)
    /\ pc = "done" => Len(calls) = ngens - 1
    /\ (pc = "done" /\ ngens = 1)
          => /\ calls = <<>>
             /\ N = <<Store(dtype, N0, L0)>>
             /\ Is2d => M = <<Store(dtype, M0, L0)>>

\* C6, witness: a driver asked for three generations has returned.
C6_Witness == pc = "done" /\ ngens = 3 /\ Len(calls) = 2

\* C7.  A second invocation with the same arguments and a deterministic
\* transition returns what the first returned.
C7_SameResultTwice ==
    (run = 2 /\ pc = "done") => <<N, M>> = first

\* C7, witness: the second invocation of a run of three generations has
\* returned.
C7_Witness == run = 2 /\ pc = "done" /\ ngens = 3 /\ first # <<>>

\* C8.  run_sim_2d advances both trajectories together: after every
\* completed iteration the same rows 0..t of N and of M are assigned and no
\* other, and the rows assigned last hold the pair that one call returned,
\* as stored; with f(N, M) = (N - 1, M + 1) on representable counts the
\* trajectories are N0, N0 - 1, ... and M0, M0 + 1, ...
C8_Lockstep ==
    (Is2d /\ pc \in {"loop", "done"})
        => /\ wN = 0..(t - 1)
           /\ wM = 0..(t - 1)
           /\ calls # <<>> =>
                 LET c == calls[Len(calls)]
                 IN  /\ c.t = t - 1
                     /\ Row(N, c.t) = Store(dtype, c.retN, L0)
                     /\ Row(M, c.t) = Store(dtype, c.retM, L0)
           /\ (gen_fn = "shift_step" /\ Representable(N0) /\ Representable(M0))
                 => \A g \in 0..(t - 1) :
                       /\ Row(N, g) = SAdd(Q(-g), N0)
                       /\ Row(M, g) = SAdd(Q(g), M0)

\* C8, witness: the scenario ([1], [0]) with f(N, M) = (N - 1, M + 1) over
\* three generations has returned N = [1, 0, -1] and M = [0, 1, 2].
C8_Witness ==
    /\ Is2d /\ pc = "done" /\ gen_fn = "shift_step"
    /\ N = <<(<<Q(1)>>), (<<Q(0)>>), (<<Q(-1)>>)>>
    /\ M = <<(<<Q(0)>>), (<<Q(1)>>), (<<Q(2)>>)>>

\* C9.  A returned trajectory has ngens rows of L values each, L being the
\* length of the initial vector; run_sim_2d returns two of that shape.
C9_ShapeOfResult ==
    pc = "done"
        => /\ Len(N) = ngens
           /\ \A r \in 1..ngens : Len(N[r]) = L0
           /\ Is2d => /\ Len(M) = ngens
                      /\ \A r \in 1..ngens : Len(M[r]) = L0

\* C9, witness: a run of three generations over two replicates, whose
\* transition returned a single value each time, has returned.
C9_Witness ==
    /\ pc = "done" /\ ngens = 3 /\ L0 = 2
    /\ gen_fn = "const_gen" /\ kwargs.size = 1

\* C10.  No step of either driver changes the caller's initial vectors.
C10_CallerVectorsKept == [][N0' = N0 /\ M0' = M0]_vars

\* C10, witness: SI_gen has updated row 0 of both buffers in place, so that
\* row 0 no longer holds the initial values.
C10_Witness ==
    /\ gen_fn = "SI_gen" /\ calls # <<>>
    /\ Row(N, 0) # Store(dtype, N0, L0)
    /\ Row(M, 0) # Store(dtype, M0, L0)

\* C11.  In a run_sim_2d run of lv_gen or SI_gen started from non-negative
\* initial values, every call handed non-negative integer counts returns
\* non-negative integer counts, whatever the random draws, and every row
\* assigned in either trajectory holds non-negative integer counts at every
\* generation.
C11_CountsStayNonNegative ==
    (Is2d /\ gen_fn \in {"lv_gen", "SI_gen"} /\ NonNegative(N0) /\ NonNegative(M0))
        => /\ \A i \in 1..Len(calls) :
                 /\ IsCounts(calls[i].argN) /\ IsCounts(calls[i].argM)
                 /\ calls[i].returned
                 /\ IsCounts(calls[i].retN) /\ IsCounts(calls[i].retM)
           /\ \A g \in wN : IsCounts(Row(N, g))
           /\ \A g \in wM : IsCounts(Row(M, g))

\* C11, witness: an SI_gen run of three generations has returned in which
\* a susceptible was infected at one generation (the infected grew by what
\* the susceptibles lost or more) and the infected fell to 0 at another.
C11_Witness ==
    /\ Is2d /\ pc = "done" /\ ngens = 3 /\ gen_fn = "SI_gen"
    /\ \E i, j \in 1..Len(calls) :
          /\ calls[i].retM[1][1] > calls[i].argM[1][1]
          /\ calls[j].argM[1][1] > 0 /\ calls[j].retM[1] = Zero

FertileExtinctReturned ==
    /\ Is2d /\ pc = "done" /\ ngens = 3 /\ gen_fn = "lv_eqn"
    /\ kwargs.lam[1] = One
    /\ Row(N, 2)[1] = Zero /\ Row(M, 2)[1] # Zero

=============
